---- MODULE Spec2Model ----
(***************************************************************************)
(* Model of types/mempool.go: the TxKey identity conversions (ToProto,     *)
(* TxKeyFromProto, TxKeysListFromProto) and the mempool error taxonomy     *)
(* (the Error() renderers and IsPreCheckError).                            *)
(*                                                                         *)
(* Every function of the file is pure, so the state is the set of values   *)
(* a caller holds (a key, a wire message, a list of wire messages, an      *)
(* error value) plus the outcome of the last call.  A Go runtime panic     *)
(* (index out of range, nil dereference) is the outcome status "panic".    *)
(***************************************************************************)
EXTENDS Integers, Sequences, FiniteSets, TLC

VARIABLES txKey, dp, dps, err, ret

vars == <<txKey, dp, dps, err, ret>>

-----------------------------------------------------------------------------
(* Sizes and bounds *)

\* sha256.Size, the length of the TxKey array
KeySize == 32

\* at most this many non-zero bytes in a sparse input key
MaxNonZero == 1

\* longest wire byte field tried (longer than KeySize on purpose)
MaxWireLen == 34

\* longest list handed to TxKeysListFromProto
MaxListLen == 3

\* deepest error chain handed to Error() and IsPreCheckError
MaxChain == 3

NonZeroBytes == {1, 255}

Zero(n) == [i \in 1..n |-> 0]

RECURSIVE SparseSeqs(_, _)
\* all byte sequences of length n with at most k non-zero bytes
SparseSeqs(n, k) ==
    IF n = 0 THEN {<<>>}
    ELSE {Append(s, 0) : s \in SparseSeqs(n - 1, k)}
         \cup (IF k > 0
               THEN {Append(s, b) : s \in SparseSeqs(n - 1, k - 1), b \in NonZeroBytes}
               ELSE {})

-----------------------------------------------------------------------------
(* Go values *)

\* a []byte: its contents and the array that backs it
NilSlice == [array |-> "nil", bytes |-> <<>>]

\* a *tmproto.TxKey
NilProto == [isNil |-> TRUE, TxKey |-> NilSlice]

Wire(b) == [isNil |-> FALSE, TxKey |-> [array |-> "wire", bytes |-> b]]

\* the nil error
NilErr == <<>>

\* errors.New(s)
ErrorsNew(s) == <<[type |-> "errorString", s |-> s]>>

\* n bytes, every one different from its neighbours
Dense(n) == [i \in 1..n |-> i]

\* the TxKey type, arrays of KeySize bytes: the sparse keys and a dense one
Keys == SparseSeqs(KeySize, MaxNonZero) \cup {Dense(KeySize)}

\* byte fields of length n: all zero, one non-zero byte anywhere, dense
WireBytes(n) ==
    {Zero(n), Dense(n)} \cup
    {[Zero(n) EXCEPT ![i] = b] : i \in 1..n, b \in NonZeroBytes}

WireInputs ==
    {NilProto} \cup {Wire(b) : b \in UNION {WireBytes(n) : n \in 0..MaxWireLen}}

NoCall == [op |-> "none"]

-----------------------------------------------------------------------------
(* TxKey.ToProto *)

RECURSIVE ToProtoLoop(_, _, _)
\* for i := range txKey { txBzs[i] = txKey[i] }
ToProtoLoop(txBzs, k, i) ==
    IF i > Len(k) THEN txBzs
    ELSE ToProtoLoop([txBzs EXCEPT ![i] = k[i]], k, i + 1)

\* variant: the wire field is the key's own array (tp.TxKey = txKey[:])
ToProto_Alias(k) ==
    [isNil |-> FALSE, TxKey |-> [array |-> "txKey", bytes |-> k]]

ToProto(k) ==
    LET txBzs == Zero(Len(k))
    IN  IF Len(k) > 0
        THEN [isNil |-> FALSE,
              TxKey |-> [array |-> "make", bytes |-> ToProtoLoop(txBzs, k, 1)]]
        ELSE [isNil |-> FALSE, TxKey |-> NilSlice]

-----------------------------------------------------------------------------
(* TxKeyFromProto *)

RECURSIVE FromProtoLoop(_, _, _)
\* for i := range dp.TxKey { txBzs[i] = dp.TxKey[i] }
\* writing txBzs[i] with i beyond the array is a run-time panic
FromProtoLoop(txBzs, b, i) ==
    IF i > Len(b) THEN [panic |-> FALSE, a |-> txBzs]
    ELSE IF i > Len(txBzs) THEN [panic |-> TRUE, a |-> txBzs]
    ELSE FromProtoLoop([txBzs EXCEPT ![i] = b[i]], b, i + 1)

\* variant: the copy loop starts at the second byte
TxKeyFromProto_SkipFirst(p) ==
    IF p.isNil
    THEN [status |-> "ok", key |-> Zero(KeySize), err |-> ErrorsNew("nil data")]
    ELSE LET r == FromProtoLoop(Zero(KeySize), p.TxKey.bytes, 2)
         IN  IF r.panic
             THEN [status |-> "panic", key |-> Zero(KeySize), err |-> NilErr]
             ELSE [status |-> "ok", key |-> r.a, err |-> NilErr]

\* variant: the nil check is missing its error
TxKeyFromProto_NilOk(p) ==
    IF p.isNil
    THEN [status |-> "ok", key |-> Zero(KeySize), err |-> NilErr]
    ELSE LET r == FromProtoLoop(Zero(KeySize), p.TxKey.bytes, 1)
         IN  IF r.panic
             THEN [status |-> "panic", key |-> Zero(KeySize), err |-> NilErr]
             ELSE [status |-> "ok", key |-> r.a, err |-> NilErr]

\* variant: a field that is not exactly KeySize bytes long is rejected
TxKeyFromProto_RejectShort(p) ==
    IF p.isNil
    THEN [status |-> "ok", key |-> Zero(KeySize), err |-> ErrorsNew("nil data")]
    ELSE IF Len(p.TxKey.bytes) # KeySize
    THEN [status |-> "ok", key |-> Zero(KeySize), err |-> ErrorsNew("invalid length")]
    ELSE LET r == FromProtoLoop(Zero(KeySize), p.TxKey.bytes, 1)
         IN  [status |-> "ok", key |-> r.a, err |-> NilErr]

TxKeyFromProto(p) ==
    IF p.isNil
    THEN [status |-> "ok", key |-> Zero(KeySize), err |-> ErrorsNew("nil data")]
    ELSE LET r == FromProtoLoop(Zero(KeySize), p.TxKey.bytes, 1)
         IN  IF r.panic
             THEN [status |-> "panic", key |-> Zero(KeySize), err |-> NilErr]
             ELSE [status |-> "ok", key |-> r.a, err |-> NilErr]

-----------------------------------------------------------------------------
(* TxKeysListFromProto *)

\* a []TxKey; "var txKeys []TxKey" is the nil slice
NilKeys == [isNil |-> TRUE, elems |-> <<>>]

\* append(txKeys, k)
AppendKey(txKeys, k) == [isNil |-> FALSE, elems |-> Append(txKeys.elems, k)]

RECURSIVE ListLoop(_, _, _)
\* for _, txKey := range dps { ... }; calls counts the elements converted
ListLoop(l, i, txKeys) ==
    IF i > Len(l)
    THEN [status |-> "ok", keys |-> txKeys, err |-> NilErr, calls |-> i - 1]
    ELSE LET r == TxKeyFromProto(l[i])
         IN  IF r.status = "panic"
             THEN [status |-> "panic", keys |-> NilKeys, err |-> NilErr, calls |-> i]
             ELSE IF r.err # NilErr
             THEN [status |-> "ok", keys |-> NilKeys, err |-> r.err, calls |-> i]
             ELSE ListLoop(l, i + 1, AppendKey(txKeys, r.key))

RECURSIVE ListLoop_Partial(_, _, _)
\* variant: on failure the keys converted so far are returned with the error
ListLoop_Partial(l, i, txKeys) ==
    IF i > Len(l)
    THEN [status |-> "ok", keys |-> txKeys, err |-> NilErr, calls |-> i - 1]
    ELSE LET r == TxKeyFromProto(l[i])
         IN  IF r.status = "panic"
             THEN [status |-> "panic", keys |-> NilKeys, err |-> NilErr, calls |-> i]
             ELSE IF r.err # NilErr
             THEN [status |-> "ok", keys |-> txKeys, err |-> r.err, calls |-> i]
             ELSE ListLoop_Partial(l, i + 1, AppendKey(txKeys, r.key))

RECURSIVE ListLoop_Prepend(_, _, _)
\* variant: each converted key is put in front of the result
ListLoop_Prepend(l, i, txKeys) ==
    IF i > Len(l)
    THEN [status |-> "ok", keys |-> txKeys, err |-> NilErr, calls |-> i - 1]
    ELSE LET r == TxKeyFromProto(l[i])
         IN  IF r.status = "panic"
             THEN [status |-> "panic", keys |-> NilKeys, err |-> NilErr, calls |-> i]
             ELSE IF r.err # NilErr
             THEN [status |-> "ok", keys |-> NilKeys, err |-> r.err, calls |-> i]
             ELSE ListLoop_Prepend(l, i + 1,
                      [isNil |-> FALSE, elems |-> <<r.key>> \o txKeys.elems])

TxKeysListFromProto_Partial(l) == ListLoop_Partial(l, 1, NilKeys)

TxKeysListFromProto_Prepend(l) == ListLoop_Prepend(l, 1, NilKeys)

TxKeysListFromProto(l) == ListLoop(l, 1, NilKeys)

\* the wire messages the input lists are made of: absent, empty, short,
\* exactly KeySize bytes, and one byte too long
WireElems ==
    {NilProto,
     Wire(<<>>),
     Wire(<<1, 255>>),
     Wire(Dense(KeySize)),
     Wire([i \in 1..(KeySize + 1) |-> 255])}

RECURSIVE SeqsUpTo(_, _)
\* all sequences over S of length at most n
SeqsUpTo(S, n) ==
    IF n = 0 THEN {<<>>}
    ELSE SeqsUpTo(S, n - 1) \cup
         {Append(q, x) : q \in {q \in SeqsUpTo(S, n - 1) : Len(q) = n - 1}, x \in S}

ListInputs == SeqsUpTo(WireElems, MaxListLen)

-----------------------------------------------------------------------------
(* Error values                                                            *)
(*                                                                         *)
(* An error is the sequence of its layers, outermost first; the rest of    *)
(* the sequence after a layer is what that layer holds: the Reason of an   *)
(* ErrPreCheck, the wrapped error of a wrapError (the error fmt.Errorf     *)
(* builds for %w, the one layer with an Unwrap method).  The other types   *)
(* hold no error and can only come last.  The nil error is <<>>.           *)

\* var ErrTxInCache = errors.New(...)
ErrTxInCache == ErrorsNew("tx already exists in cache")

PreCheckLayer == [type |-> "ErrPreCheck"]

WrapLayer == [type |-> "wrapError", msg |-> "context"]

FieldVals == {-7, 0, 10, 150}

ErrWrongHeightVals ==
    {[type |-> "ErrWrongHeight", desiredHeight |-> a, currentAuctionHeight |-> b] :
        a \in FieldVals, b \in FieldVals}

ErrBundleFullVals ==
    {[type |-> "ErrBundleFull", bundleId |-> a, bundleHeight |-> b] :
        a \in FieldVals, b \in FieldVals}

ErrTxMalformedForBundleVals ==
    {[type |-> "ErrTxMalformedForBundle", bundleId |-> a, bundleSize |-> b,
      bundleHeight |-> c, bundleOrder |-> d] :
        a \in FieldVals, b \in FieldVals, c \in FieldVals, d \in FieldVals}

ErrTxTooLargeVals ==
    {[type |-> "ErrTxTooLarge", Max |-> a, Actual |-> b] :
        a \in FieldVals, b \in FieldVals}

ErrMempoolIsFullVals ==
    {[type |-> "ErrMempoolIsFull", NumTxs |-> a, MaxTxs |-> b,
      TxsBytes |-> c, MaxTxsBytes |-> d] :
        a \in FieldVals, b \in FieldVals, c \in FieldVals, d \in FieldVals}

ErrMempoolPendingIsFullVals ==
    {[type |-> "ErrMempoolPendingIsFull", NumTxs |-> a, MaxTxs |-> b,
      TxsBytes |-> c, MaxTxsBytes |-> d] :
        a \in FieldVals, b \in FieldVals, c \in FieldVals, d \in FieldVals}

StructVals ==
    ErrWrongHeightVals \cup ErrBundleFullVals \cup ErrTxMalformedForBundleVals
    \cup ErrTxTooLargeVals \cup ErrMempoolIsFullVals \cup ErrMempoolPendingIsFullVals

\* the errors put at the end of a chain
LeafSamples ==
    {ErrTxInCache[1],
     [type |-> "errorString", s |-> "check failed"],
     [type |-> "ErrWrongHeight", desiredHeight |-> 10, currentAuctionHeight |-> 150],
     [type |-> "ErrBundleFull", bundleId |-> 10, bundleHeight |-> 150],
     [type |-> "ErrTxMalformedForBundle", bundleId |-> 0, bundleSize |-> 10,
      bundleHeight |-> 150, bundleOrder |-> -7],
     [type |-> "ErrTxTooLarge", Max |-> 10, Actual |-> 150],
     [type |-> "ErrMempoolIsFull", NumTxs |-> 0, MaxTxs |-> 10,
      TxsBytes |-> 150, MaxTxsBytes |-> -7],
     [type |-> "ErrMempoolPendingIsFull", NumTxs |-> 0, MaxTxs |-> 10,
      TxsBytes |-> 150, MaxTxsBytes |-> -7],
     PreCheckLayer}

\* chains of at most n layers: wrappers and pre-check layers around a leaf
\* (an ErrPreCheck that comes last has a nil Reason)
Chains(n) ==
    {Append(q, x) : q \in SeqsUpTo({WrapLayer, PreCheckLayer}, n - 1), x \in LeafSamples}

ErrInputs == Chains(MaxChain) \cup {<<v>> : v \in StructVals}

-----------------------------------------------------------------------------
(* fmt.Sprintf with %d verbs *)

Digit(d) == SubSeq("0123456789", d + 1, d + 1)

RECURSIVE DecNat(_)
DecNat(n) == IF n < 10 THEN Digit(n) ELSE DecNat(n \div 10) \o Digit(n % 10)

\* the %d rendering of an integer
Dec(n) == IF n < 0 THEN "-" \o DecNat(-n) ELSE DecNat(n)

\* the position of the first %d of format, 0 when there is none
FirstVerb(format) ==
    LET P == {i \in 1..(Len(format) - 1) : SubSeq(format, i, i + 1) = "%d"}
    IN  IF P = {} THEN 0 ELSE CHOOSE i \in P : \A j \in P : i <= j

RECURSIVE Sprintf(_, _)
\* the text up to each verb is copied, the verb replaced by its operand
Sprintf(format, args) ==
    LET v == FirstVerb(format)
    IN  IF v = 0 THEN format
        ELSE SubSeq(format, 1, v - 1)
             \o (IF Len(args) = 0 THEN "%!d(MISSING)" ELSE Dec(Head(args)))
             \o Sprintf(SubSeq(format, v + 2, Len(format)),
                        IF Len(args) = 0 THEN args ELSE Tail(args))

-----------------------------------------------------------------------------
(* The Error() methods *)

ErrWrongHeightError(e) ==
    Sprintf("Tx submitted for wrong height, asked for %d, but current auction height is %d",
            <<e.desiredHeight, e.currentAuctionHeight>>)

ErrBundleFullError(e) ==
    Sprintf("Tx submitted but bundle is full, for bundleId %d with bundle size %d",
            <<e.bundleId, e.bundleHeight>>)

ErrTxMalformedForBundleError(e) ==
    Sprintf("Tx submitted but malformed with respect to bundling, for bundleId %d, at height %d, with bundleSize %d, and bundleOrder %d",
            <<e.bundleId, e.bundleHeight, e.bundleSize, e.bundleOrder>>)

ErrTxTooLargeError(e) ==
    Sprintf("Tx too large. Max size is %d, but got %d", <<e.Max, e.Actual>>)

ErrMempoolIsFullError(e) ==
    Sprintf("mempool is full: number of txs %d (max: %d), total txs bytes %d (max: %d)",
            <<e.NumTxs, e.MaxTxs, e.TxsBytes, e.MaxTxsBytes>>)

ErrMempoolPendingIsFullError(e) ==
    Sprintf("mempool pending set is full: number of txs %d (max: %d), total txs bytes %d (max: %d)",
            <<e.NumTxs, e.MaxTxs, e.TxsBytes, e.MaxTxsBytes>>)

Rendered(m) == [status |-> "ok", msg |-> m]

Panicked == [status |-> "panic", msg |-> ""]

RECURSIVE Error(_)
\* e.Error() for a non-nil error e, by the dynamic type of e
Error(e) ==
    LET h == Head(e)
    IN  CASE h.type = "errorString" -> Rendered(h.s)
          [] h.type = "wrapError" -> Rendered(h.msg)
          [] h.type = "ErrWrongHeight" -> Rendered(ErrWrongHeightError(h))
          [] h.type = "ErrBundleFull" -> Rendered(ErrBundleFullError(h))
          [] h.type = "ErrTxMalformedForBundle" -> Rendered(ErrTxMalformedForBundleError(h))
          [] h.type = "ErrTxTooLarge" -> Rendered(ErrTxTooLargeError(h))
          [] h.type = "ErrMempoolIsFull" -> Rendered(ErrMempoolIsFullError(h))
          [] h.type = "ErrMempoolPendingIsFull" -> Rendered(ErrMempoolPendingIsFullError(h))
          \* ErrPreCheck: return e.Reason.Error(); a nil Reason is a nil
          \* interface and the call on it a nil dereference
          [] h.type = "ErrPreCheck" ->
                IF Tail(e) = NilErr THEN Panicked ELSE Error(Tail(e))

-----------------------------------------------------------------------------
(* IsPreCheckError *)

RECURSIVE ErrorsAs(_, _)
\* errors.As(e, &T{}): walk the Unwrap chain until a layer of type T
ErrorsAs(e, T) ==
    IF e = NilErr THEN FALSE
    ELSE IF Head(e).type = T THEN TRUE
    ELSE IF Head(e).type = "wrapError" THEN ErrorsAs(Tail(e), T)
    ELSE FALSE

\* variant: a type assertion on the error itself, without unwrapping
IsPreCheckError_Shallow(e) == e # NilErr /\ Head(e).type = "ErrPreCheck"

IsPreCheckError(e) == ErrorsAs(e, "ErrPreCheck")

-----------------------------------------------------------------------------
(* The calls *)

CallToProto ==
    /\ dp' = ToProto(txKey)
    /\ ret' = [op |-> "ToProto", status |-> "ok"]
    /\ UNCHANGED <<txKey, dps, err>>

CallTxKeyFromProto ==
    /\ ret' = [op |-> "TxKeyFromProto"] @@ TxKeyFromProto(dp)
    /\ UNCHANGED <<txKey, dp, dps, err>>

CallTxKeysListFromProto ==
    /\ ret' = [op |-> "TxKeysListFromProto"] @@ TxKeysListFromProto(dps)
    /\ UNCHANGED <<txKey, dp, dps, err>>

\* err.Error() on an error value (a method call on the nil interface is
\* not a call of any method of this file)
CallError ==
    /\ err # NilErr
    /\ ret' = [op |-> "Error"] @@ Error(err)
    /\ UNCHANGED <<txKey, dp, dps, err>>

CallIsPreCheckError ==
    /\ ret' = [op |-> "IsPreCheckError", status |-> "ok", result |-> IsPreCheckError(err)]
    /\ UNCHANGED <<txKey, dp, dps, err>>

Init ==
    /\ ret = NoCall
    /\ \/ txKey \in Keys /\ dp = NilProto /\ dps = <<>> /\ err = NilErr
       \/ txKey = Zero(KeySize) /\ dp \in WireInputs /\ dps = <<>> /\ err = NilErr
       \/ txKey = Zero(KeySize) /\ dp = NilProto /\ dps \in ListInputs /\ err = NilErr
       \/ txKey = Zero(KeySize) /\ dp = NilProto /\ dps = <<>> /\ err \in ErrInputs

Next ==
    \/ CallToProto
    \/ CallTxKeyFromProto
    \/ CallTxKeysListFromProto
    \/ CallError
    \/ CallIsPreCheckError

Spec == Init /\ [][Next]_vars

-----------------------------------------------------------------------------
(* Properties of the identity conversions *)

\* the last call was TxKeyFromProto (its argument is dp)
FromProtoDone == ret.op = "TxKeyFromProto"

\* C1: round trip.  TxKeyFromProto applied to the message ToProto made of a
\* key returns a nil error and that key, byte for byte.
C1_RoundTrip ==
    (FromProtoDone /\ dp.TxKey.array = "make") =>
        /\ ret.status = "ok"
        /\ ret.err = NilErr
        /\ ret.key = txKey

C1_Witness ==
    /\ FromProtoDone
    /\ dp.TxKey.array = "make"
    /\ txKey[1] # 0
    /\ txKey[KeySize] # 0
    /\ ret.key = txKey

\* C2: for a present wire message of any length, longer than KeySize
\* included, TxKeyFromProto completes with a nil error and the first KeySize
\* bytes copied in place.
C2_AnyLengthCompletes ==
    (FromProtoDone /\ ~dp.isNil) =>
        /\ ret.status = "ok"
        /\ ret.err = NilErr
        /\ \A i \in 1..KeySize :
              i <= Len(dp.TxKey.bytes) => ret.key[i] = dp.TxKey.bytes[i]

\* C3: null rejection.  For an absent message TxKeyFromProto returns the
\* error "nil data" and the zero key, never a nil error.
C3_NilRejected ==
    (FromProtoDone /\ dp.isNil) =>
        /\ ret.status = "ok"
        /\ ret.err # NilErr
        /\ Len(ret.err) = 1
        /\ ret.err[1].s = "nil data"
        /\ ret.key = Zero(KeySize)

C3_Witness ==
    /\ FromProtoDone
    /\ dp.isNil
    /\ ret.err # NilErr

\* C7: a present message with fewer than KeySize bytes is accepted: nil
\* error, the wire bytes in place, zeros after them.
C7_ShortZeroPadded ==
    (FromProtoDone /\ ~dp.isNil /\ Len(dp.TxKey.bytes) < KeySize) =>
        /\ ret.status = "ok"
        /\ ret.err = NilErr
        /\ Len(ret.key) = KeySize
        /\ \A i \in 1..KeySize :
              ret.key[i] = IF i <= Len(dp.TxKey.bytes) THEN dp.TxKey.bytes[i] ELSE 0

C7_Witness ==
    /\ FromProtoDone
    /\ ~dp.isNil
    /\ Len(dp.TxKey.bytes) \in 1..(KeySize - 1)
    /\ dp.TxKey.bytes[Len(dp.TxKey.bytes)] # 0
    /\ ret.status = "ok"
    /\ ret.key[Len(dp.TxKey.bytes)] # 0

\* C8: ToProto always yields a present message whose field holds exactly
\* KeySize bytes equal to the key's, in an array of its own, and leaves the
\* key as it was.
C8_ToProtoCopies ==
    [][ret'.op = "ToProto" =>
          /\ ret'.status = "ok"
          /\ txKey' = txKey
          /\ ~dp'.isNil
          /\ Len(dp'.TxKey.bytes) = KeySize
          /\ \A i \in 1..KeySize : dp'.TxKey.bytes[i] = txKey[i]
          /\ dp'.TxKey.array = "make"]_vars

C8_Witness ==
    /\ ret.op = "ToProto"
    /\ txKey # Zero(KeySize)
    /\ dp.TxKey.bytes = txKey

-----------------------------------------------------------------------------
(* Properties of the list conversion *)

ListDone == ret.op = "TxKeysListFromProto"

\* element j of dps is present and holds at most KeySize bytes
ValidElem(j) == ~dps[j].isNil /\ Len(dps[j].TxKey.bytes) <= KeySize

\* the first absent element of dps is element i and all before it are valid
FirstAbsent(i) ==
    /\ i \in 1..Len(dps)
    /\ dps[i].isNil
    /\ \A j \in 1..(i - 1) : ValidElem(j)

\* the key a single valid wire message stands for: its bytes in place,
\* zeros after them
KeyOf(p) ==
    [n \in 1..KeySize |-> IF n <= Len(p.TxKey.bytes) THEN p.TxKey.bytes[n] ELSE 0]

\* C4: fail fast.  When element i is absent and the elements before it are
\* valid, the call returns the "nil data" error of element i and the nil
\* slice: no prefix of converted keys, and no element after i is converted.
C4_ListFailFast ==
    ListDone =>
        \A i \in 1..Len(dps) :
            FirstAbsent(i) =>
                /\ ret.status = "ok"
                /\ ret.err = ErrorsNew("nil data")
                /\ ret.keys.isNil
                /\ ret.keys.elems = <<>>
                /\ ret.calls = i

C4_Witness ==
    /\ ListDone
    /\ Len(dps) = 3
    /\ FirstAbsent(2)
    /\ Len(dps[1].TxKey.bytes) = KeySize
    /\ ret.err # NilErr
    /\ ret.calls = 2

\* C5: order preservation.  For a list of present messages of at most
\* KeySize bytes each, the empty list included, the call returns a nil error
\* and as many keys as messages, the j-th key being the j-th message's key.
C5_ListOrder ==
    (ListDone /\ \A j \in 1..Len(dps) : ValidElem(j)) =>
        /\ ret.status = "ok"
        /\ ret.err = NilErr
        /\ Len(ret.keys.elems) = Len(dps)
        /\ \A j \in 1..Len(dps) : ret.keys.elems[j] = KeyOf(dps[j])

C5_Witness ==
    /\ ListDone
    /\ Len(dps) = 3
    /\ \A j \in 1..Len(dps) : ValidElem(j)
    /\ dps[1] # dps[2]
    /\ dps[2] # dps[3]
    /\ ret.keys.elems[1] # ret.keys.elems[3]

-----------------------------------------------------------------------------
(* Properties of the error taxonomy *)

IsPreCheckDone == ret.op = "IsPreCheckError"

ErrorDone == ret.op = "Error"

\* C6: classification.  IsPreCheckError(err) is true exactly when err or an
\* error it wraps is an ErrPreCheck: true for an ErrPreCheck with any
\* Reason, false for every other variant on its own, false for nil, and
\* never a panic.
C6_Classification ==
    IsPreCheckDone =>
        /\ ret.status = "ok"
        /\ ret.result = (\E i \in 1..Len(err) : err[i].type = "ErrPreCheck")
        /\ (err # NilErr /\ err[1].type = "ErrPreCheck") => ret.result
        /\ (Len(err) = 1 /\ err[1].type # "ErrPreCheck") => ~ret.result
        /\ err = ErrTxInCache => ~ret.result
        /\ err = NilErr => ~ret.result

C6_Witness ==
    /\ IsPreCheckDone
    /\ Len(err) = 3
    /\ err[1].type = "wrapError"
    /\ err[2].type = "ErrPreCheck"
    /\ err[3].type = "ErrTxTooLarge"
    /\ ret.result

\* C9: rendering never fails.  Error() of every variant value completes
\* with a string, an ErrPreCheck with a nil Reason included, and for an
\* ErrPreCheck with a Reason the string is the Reason's message.
C9_RenderingTotal ==
    ErrorDone =>
        /\ ret.status = "ok"
        /\ (err[1].type = "ErrPreCheck" /\ Tail(err) # NilErr) =>
               ret.msg = Error(Tail(err)).msg

\* s occurs in m starting at position i
OccursAt(m, s, i) == i + Len(s) - 1 <= Len(m) /\ SubSeq(m, i, i + Len(s) - 1) = s

\* the number of places of m where s occurs
Occurrences(m, s) == Cardinality({i \in 1..Len(m) : OccursAt(m, s, i)})

\* the fields of each variant, as the data model lists them
FieldsOf(t) ==
    CASE t = "ErrWrongHeight" -> {"desiredHeight", "currentAuctionHeight"}
      [] t = "ErrBundleFull" -> {"bundleId", "bundleHeight"}
      [] t = "ErrTxMalformedForBundle" ->
            {"bundleId", "bundleSize", "bundleHeight", "bundleOrder"}
      [] t = "ErrTxTooLarge" -> {"Max", "Actual"}
      [] t \in {"ErrMempoolIsFull", "ErrMempoolPendingIsFull"} ->
            {"NumTxs", "MaxTxs", "TxsBytes", "MaxTxsBytes"}

\* the words of a message that name field f of e; the two "(max: " labels
\* are told apart by the count they follow
LabelOf(e, f) ==
    CASE f = "desiredHeight" -> "asked for "
      [] f = "currentAuctionHeight" -> "current auction height is "
      [] f = "bundleId" -> "bundleId "
      [] f = "bundleHeight" -> "height "
      [] f = "bundleSize" -> "bundleSize "
      [] f = "bundleOrder" -> "bundleOrder "
      [] f = "Max" -> "Max size is "
      [] f = "Actual" -> "but got "
      [] f = "NumTxs" -> "number of txs "
      [] f = "MaxTxs" -> "number of txs " \o Dec(e.NumTxs) \o " (max: "
      [] f = "TxsBytes" -> "total txs bytes "
      [] f = "MaxTxsBytes" -> "total txs bytes " \o Dec(e.TxsBytes) \o " (max: "

FieldValue(e, f) ==
    CASE f = "desiredHeight" -> e.desiredHeight
      [] f = "currentAuctionHeight" -> e.currentAuctionHeight
      [] f = "bundleId" -> e.bundleId
      [] f = "bundleHeight" -> e.bundleHeight
      [] f = "bundleSize" -> e.bundleSize
      [] f = "bundleOrder" -> e.bundleOrder
      [] f = "Max" -> e.Max
      [] f = "Actual" -> e.Actual
      [] f = "NumTxs" -> e.NumTxs
      [] f = "MaxTxs" -> e.MaxTxs
      [] f = "TxsBytes" -> e.TxsBytes
      [] f = "MaxTxsBytes" -> e.MaxTxsBytes

StructTypes ==
    {"ErrWrongHeight", "ErrBundleFull", "ErrTxMalformedForBundle",
     "ErrTxTooLarge", "ErrMempoolIsFull", "ErrMempoolPendingIsFull"}

\* the message of e shows field f once, right after the words that name f
ShownAtLabel(m, e, f) ==
    Occurrences(m, LabelOf(e, f) \o Dec(FieldValue(e, f))) = 1

\* C10: the message of each of the six structured variants contains the
\* decimal rendering of every field of the variant, each once and at the
\* place the message's label for that field names.
C10_FieldsAtTheirLabels ==
    (ErrorDone /\ Len(err) = 1 /\ err[1].type \in StructTypes) =>
        /\ ret.status = "ok"
        /\ \A f \in FieldsOf(err[1].type) :
              /\ Occurrences(ret.msg, Dec(FieldValue(err[1], f))) >= 1
              /\ ShownAtLabel(ret.msg, err[1], f)

====
